---- MODULE Spec2Model ----
(***************************************************************************)
(* Builder pattern of main.go: two concrete builders (CarBuilder,          *)
(* CarManualBuilder) behind the Builder interface, the Director that       *)
(* drives a builder through a fixed call sequence, and a client that       *)
(* calls the constructors, the builder methods, the director and the       *)
(* builders' getProduct in any order.                                      *)
(*                                                                         *)
(* A product is the variable a composite literal &Car{} / &Manual{}        *)
(* creates; products are numbered in allocation order (1, 2, ...) and a    *)
(* pointer is the number of the variable it points to, Nil for nil.  Car   *)
(* and Manual have no fields, so the == of two such pointers is left       *)
(* unspecified by the language; the program never evaluates it, and        *)
(* identity below is identity of the variable.                             *)
(***************************************************************************)
EXTENDS Integers, Sequences, FiniteSets, TLC

\* Bound on the number of products allocated in one run.
MaxProducts == 4

Nil == 0

Builders == {"cb", "mb"}

Setters == {"setSeats", "setEngine", "setTripComputer", "setGPS"}

\* Argument lists (v ...any) the client passes to a setter.
Args == {<<>>, <<"4">>}

VARIABLES
    car,          \* CarBuilder.car of the car builder "cb"
    manual,       \* CarManualBuilder.manual of the manual builder "mb"
    constructed,  \* the builders the client has constructed
    allocated,    \* number of products allocated so far
    heap,         \* heap[p]: the reachable product p, [type, configured]
    trace,        \* builder method calls issued by the last client operation
    lastOp,       \* the last client operation, <<name, builder>>
    ret,          \* the product the client received last (Nil: none yet)
    given,        \* given[b]: products b.getProduct has returned so far
    sinceReset,   \* sinceReset[b]: the last two of them since b's last reset()
    scenario      \* progress of NewCarBuilder; constructSportsCar; getProduct x2

vars == <<car, manual, constructed, allocated, heap, trace, lastOp, ret,
          given, sinceReset, scenario>>

\* The part of the state the builder methods read and write.
Mem == [car |-> car, manual |-> manual, allocated |-> allocated, heap |-> heap,
        trace |-> trace, sinceReset |-> sinceReset]

----------------------------------------------------------------------------
\* Products

\* A composite literal &T{} creates a new variable of type T, on which no
\* setter has acted, and yields the pointer to it.
Allocate(m, type) ==
    LET p == m.allocated + 1
    IN  [mem |-> [m EXCEPT !.allocated = p,
                           !.heap = [q \in DOMAIN @ \cup {p} |->
                                       IF q = p
                                       THEN [type |-> type, configured |-> FALSE]
                                       ELSE @[q]]],
         ptr |-> p]

newCar(m) == Allocate(m, "Car")

newManual(m) == Allocate(m, "Manual")

\* The product builder b owns in m.
Owned(m, b) == IF b = "cb" THEN m.car ELSE m.manual

\* Entry of method meth of builder b with arguments v: the call is recorded,
\* and a setter marks the product b owns at that moment as configured.
Enter(m, b, meth, v) ==
    LET p == Owned(m, b)
    IN  [m EXCEPT !.trace = Append(@, <<b, meth, v>>),
                  !.heap = IF meth \in Setters /\ p # Nil
                           THEN [@ EXCEPT ![p].configured = TRUE]
                           ELSE @,
                  !.sinceReset = IF meth = "reset"
                                 THEN [@ EXCEPT ![b] = <<>>]
                                 ELSE @]

----------------------------------------------------------------------------
\* CarBuilder

CarBuilder_reset_keep(m) == Enter(m, "cb", "reset", <<>>)

CarBuilder_reset(m) ==
    LET e == Enter(m, "cb", "reset", <<>>)
        a == newCar(e)
    IN  [a.mem EXCEPT !.car = a.ptr]

CarBuilder_setSeats_reset(m, v) == CarBuilder_reset(Enter(m, "cb", "setSeats", v))

CarBuilder_setSeats(m, v) == Enter(m, "cb", "setSeats", v)

CarBuilder_setEngine(m, v) == Enter(m, "cb", "setEngine", v)

CarBuilder_setTripComputer(m, v) == Enter(m, "cb", "setTripComputer", v)

CarBuilder_setGPS(m, v) == Enter(m, "cb", "setGPS", v)

CarBuilder_getProduct_noreset(m) ==
    LET e == Enter(m, "cb", "getProduct", <<>>)
    IN  [mem |-> e, ptr |-> e.car]

CarBuilder_getProduct(m) ==
    LET e == Enter(m, "cb", "getProduct", <<>>)
        product == e.car
    IN  [mem |-> CarBuilder_reset(e), ptr |-> product]

NewCarBuilder_noreset(m) == [m EXCEPT !.car = Nil]

NewCarBuilder(m) == CarBuilder_reset([m EXCEPT !.car = Nil])

----------------------------------------------------------------------------
\* CarManualBuilder

CarManualBuilder_reset(m) ==
    LET e == Enter(m, "mb", "reset", <<>>)
        a == newManual(e)
    IN  [a.mem EXCEPT !.manual = a.ptr]

CarManualBuilder_setSeats(m, v) == Enter(m, "mb", "setSeats", v)

CarManualBuilder_setEngine(m, v) == Enter(m, "mb", "setEngine", v)

CarManualBuilder_setTripComputer(m, v) == Enter(m, "mb", "setTripComputer", v)

CarManualBuilder_setGPS(m, v) == Enter(m, "mb", "setGPS", v)

CarManualBuilder_getProduct_reset(m) ==
    LET e == Enter(m, "mb", "getProduct", <<>>)
        product == e.manual
    IN  [mem |-> CarManualBuilder_reset(e), ptr |-> product]

CarManualBuilder_getProduct(m) ==
    LET e == Enter(m, "mb", "getProduct", <<>>)
    IN  [mem |-> e, ptr |-> e.manual]

NewCarManualBuilder(m) == CarManualBuilder_reset([m EXCEPT !.manual = Nil])

----------------------------------------------------------------------------
\* Builder interface: a call through the interface runs the method of the
\* concrete type behind it.

Builder_reset_other(m, b) ==
    IF b = "cb" THEN CarManualBuilder_reset(m) ELSE CarBuilder_reset(m)

Builder_reset(m, b) ==
    IF b = "cb" THEN CarBuilder_reset(m) ELSE CarManualBuilder_reset(m)

Builder_setSeats(m, b, v) ==
    IF b = "cb" THEN CarBuilder_setSeats(m, v) ELSE CarManualBuilder_setSeats(m, v)

Builder_setEngine(m, b, v) ==
    IF b = "cb" THEN CarBuilder_setEngine(m, v) ELSE CarManualBuilder_setEngine(m, v)

Builder_setTripComputer(m, b, v) ==
    IF b = "cb" THEN CarBuilder_setTripComputer(m, v)
    ELSE CarManualBuilder_setTripComputer(m, v)

Builder_setGPS(m, b, v) ==
    IF b = "cb" THEN CarBuilder_setGPS(m, v) ELSE CarManualBuilder_setGPS(m, v)

Builder_set(m, b, meth, v) ==
    CASE meth = "setSeats" -> Builder_setSeats(m, b, v)
      [] meth = "setEngine" -> Builder_setEngine(m, b, v)
      [] meth = "setTripComputer" -> Builder_setTripComputer(m, b, v)
      [] meth = "setGPS" -> Builder_setGPS(m, b, v)

\* builder.(*CarBuilder).getProduct() / builder.(*CarManualBuilder).getProduct()
getProduct(m, b) ==
    IF b = "cb" THEN CarBuilder_getProduct(m) ELSE CarManualBuilder_getProduct(m)

----------------------------------------------------------------------------
\* Director

Director_constructSportsCar_swapped(m, b) ==
    LET m1 == Builder_reset(m, b)
        m2 == Builder_setEngine(m1, b, <<"SportEngine">>)
        m3 == Builder_setSeats(m2, b, <<"2">>)
        m4 == Builder_setTripComputer(m3, b, <<"true">>)
    IN  Builder_setGPS(m4, b, <<"true">>)

Director_constructSportsCar_noreset(m, b) ==
    LET m2 == Builder_setSeats(m, b, <<"2">>)
        m3 == Builder_setEngine(m2, b, <<"SportEngine">>)
        m4 == Builder_setTripComputer(m3, b, <<"true">>)
    IN  Builder_setGPS(m4, b, <<"true">>)

Director_constructSportsCar(m, b) ==
    LET m1 == Builder_reset(m, b)
        m2 == Builder_setSeats(m1, b, <<"2">>)
        m3 == Builder_setEngine(m2, b, <<"SportEngine">>)
        m4 == Builder_setTripComputer(m3, b, <<"true">>)
    IN  Builder_setGPS(m4, b, <<"true">>)

Director_constructSUV_reset(m, b) == Builder_reset(m, b)

Director_constructSUV(m, b) == m

----------------------------------------------------------------------------
\* Client

\* A client operation starts with an empty call record.
Start == [Mem EXCEPT !.trace = <<>>]

\* The products still referenced when the client holds r: the ones the
\* builders own and r; the rest is garbage.
Reachable(m, r) == {m.car, m.manual, r} \ {Nil}

\* The state after a client operation that left the builders as in m and the
\* client holding r, provided it allocated no more than the bound allows.
Commit(m, r) ==
    /\ m.allocated <= MaxProducts
    /\ car' = m.car
    /\ manual' = m.manual
    /\ allocated' = m.allocated
    /\ heap' = [p \in Reachable(m, r) |-> m.heap[p]]
    /\ trace' = m.trace
    /\ sinceReset' = m.sinceReset
    /\ ret' = r

NoScenario == [stage |-> "none", ctorCar |-> Nil, builtCar |-> Nil, firstCar |-> Nil]

LastTwo(s) == IF Len(s) <= 2 THEN s ELSE SubSeq(s, Len(s) - 1, Len(s))

\* Any operation outside the scenario's sequence ends it.
Off == [scenario EXCEPT !.stage = "off"]

Init ==
    /\ car = Nil
    /\ manual = Nil
    /\ constructed = {}
    /\ allocated = 0
    /\ heap = <<>>
    /\ trace = <<>>
    /\ lastOp = <<"none", "none">>
    /\ ret = Nil
    /\ given = [b \in Builders |-> {}]
    /\ sinceReset = [b \in Builders |-> <<>>]
    /\ scenario = NoScenario

DoNewCarBuilder ==
    /\ "cb" \notin constructed
    /\ LET m == NewCarBuilder(Start)
       IN  /\ Commit(m, ret)
           /\ scenario' = [NoScenario EXCEPT !.stage = "new", !.ctorCar = m.car]
    /\ constructed' = constructed \cup {"cb"}
    /\ lastOp' = <<"NewCarBuilder", "cb">>
    /\ UNCHANGED given

DoNewCarManualBuilder ==
    /\ "mb" \notin constructed
    /\ Commit(NewCarManualBuilder(Start), ret)
    /\ constructed' = constructed \cup {"mb"}
    /\ lastOp' = <<"NewCarManualBuilder", "mb">>
    /\ scenario' = Off
    /\ UNCHANGED given

DoReset(b) ==
    /\ b \in constructed
    /\ Commit(Builder_reset(Start, b), ret)
    /\ lastOp' = <<"reset", b>>
    /\ scenario' = Off
    /\ UNCHANGED <<constructed, given>>

DoSet(b, meth, v) ==
    /\ b \in constructed
    /\ Commit(Builder_set(Start, b, meth, v), ret)
    /\ lastOp' = <<meth, b>>
    /\ scenario' = Off
    /\ UNCHANGED <<constructed, given>>

DoGetProduct(b) ==
    /\ b \in constructed
    /\ LET r == getProduct(Start, b)
       IN  /\ Commit([r.mem EXCEPT !.sinceReset[b] = LastTwo(Append(@, r.ptr))], r.ptr)
           /\ given' = [given EXCEPT ![b] = @ \cup {r.ptr}]
           /\ scenario' =
                IF b = "cb" /\ scenario.stage = "built"
                THEN [scenario EXCEPT !.stage = "got1", !.firstCar = r.ptr]
                ELSE IF b = "cb" /\ scenario.stage = "got1"
                THEN [scenario EXCEPT !.stage = "got2"]
                ELSE Off
    /\ lastOp' = <<"getProduct", b>>
    /\ UNCHANGED constructed

DoConstructSportsCar(b) ==
    /\ b \in constructed
    /\ LET m == Director_constructSportsCar(Start, b)
       IN  /\ Commit(m, ret)
           /\ scenario' =
                IF b = "cb" /\ scenario.stage = "new"
                THEN [scenario EXCEPT !.stage = "built", !.builtCar = m.car]
                ELSE Off
    /\ lastOp' = <<"constructSportsCar", b>>
    /\ UNCHANGED <<constructed, given>>

DoConstructSUV(b) ==
    /\ b \in constructed
    /\ Commit(Director_constructSUV(Start, b), ret)
    /\ lastOp' = <<"constructSUV", b>>
    /\ scenario' = Off
    /\ UNCHANGED <<constructed, given>>

Next ==
    \/ DoNewCarBuilder
    \/ DoNewCarManualBuilder
    \/ \E b \in Builders : DoReset(b)
    \/ \E b \in Builders, meth \in Setters, v \in Args : DoSet(b, meth, v)
    \/ \E b \in Builders : DoGetProduct(b)
    \/ \E b \in Builders : DoConstructSportsCar(b)
    \/ \E b \in Builders : DoConstructSUV(b)

Spec == Init /\ [][Next]_vars

----------------------------------------------------------------------------
\* Properties

\* The methods named in the call record, in order.
Methods(t) == [i \in DOMAIN t |-> t[i][2]]

\* Builder b's owned product and its contents, Nil and nothing before
\* construction.
View(owned, h) == IF owned \in DOMAIN h THEN <<owned, h[owned]>> ELSE <<owned>>

CarView == View(car, heap)

ManualView == View(manual, heap)

\* C1: CarBuilder.getProduct returns the product the builder owned just before
\* the call and leaves the builder owning a newly allocated product on which no
\* setter has acted; a getProduct that directly follows a getProduct returns a
\* product other than the one returned before.
C1_CarGetProductStep ==
    lastOp' = <<"getProduct", "cb">> =>
        /\ ret' = car
        /\ ret' # Nil
        /\ car' = allocated + 1
        /\ car' # ret'
        /\ heap'[car'] = [type |-> "Car", configured |-> FALSE]
        /\ (lastOp = <<"getProduct", "cb">> => ret' # ret)

C1_CarGetProduct == [][C1_CarGetProductStep]_vars

C1_Witness ==
    /\ lastOp = <<"getProduct", "cb">>
    /\ Cardinality(given["cb"]) >= 2
    /\ heap[ret].configured

\* C2: CarManualBuilder.getProduct returns the manual the builder owns, calls no
\* reset and leaves the builder owning that same manual, so all getProduct
\* calls since the builder's last reset have returned the same manual.
C2_ManualGetProductStep ==
    lastOp' = <<"getProduct", "mb">> =>
        /\ ret' = manual
        /\ manual' = manual
        /\ allocated' = allocated
        /\ Methods(trace') = <<"getProduct">>
        /\ \A i \in DOMAIN sinceReset'["mb"] : sinceReset'["mb"][i] = ret'

SportsCarCalls(b) ==
    << <<b, "reset", <<>> >>,
       <<b, "setSeats", <<"2">> >>,
       <<b, "setEngine", <<"SportEngine">> >>,
       <<b, "setTripComputer", <<"true">> >>,
       <<b, "setGPS", <<"true">> >> >>

\* C3: constructSportsCar issues to the given builder exactly the calls reset(),
\* setSeats(2), setEngine("SportEngine"), setTripComputer(true), setGPS(true),
\* in this order, and no other call.
C3_SportsCarSequence ==
    lastOp[1] = "constructSportsCar" => trace = SportsCarCalls(lastOp[2])

C3_Witness ==
    /\ lastOp = <<"constructSportsCar", "mb">>
    /\ "cb" \in constructed

\* C4: constructSUV issues no call to the builder and changes nothing: the
\* builders' products, the heap and the allocation count stay as they were.
C4_SUVStep ==
    lastOp'[1] = "constructSUV" =>
        /\ trace' = <<>>
        /\ UNCHANGED <<car, manual, allocated, heap, constructed, ret, given,
                       sinceReset>>

C4_SUVNoCalls == [][C4_SUVStep]_vars

C4_Witness ==
    /\ lastOp = <<"constructSUV", "cb">>
    /\ heap[car].configured
    /\ "mb" \in constructed

\* C5: right after NewCarBuilder or NewCarManualBuilder the builder owns a
\* non-nil product, the one allocated last, of the builder's type and with no
\* setter applied, and the constructor has called reset exactly once.
C5_AfterConstructor ==
    /\ lastOp[1] = "NewCarBuilder" =>
          /\ car # Nil
          /\ car = allocated
          /\ heap[car] = [type |-> "Car", configured |-> FALSE]
          /\ trace = << <<"cb", "reset", <<>> >> >>
    /\ lastOp[1] = "NewCarManualBuilder" =>
          /\ manual # Nil
          /\ manual = allocated
          /\ heap[manual] = [type |-> "Manual", configured |-> FALSE]
          /\ trace = << <<"mb", "reset", <<>> >> >>

C5_Witness ==
    /\ lastOp[1] = "NewCarBuilder"
    /\ "mb" \in constructed
    /\ heap[manual].configured

\* C6: after getProduct of either builder has returned, the builder no longer
\* owns the product it returned.
C6_Detached ==
    lastOp[1] = "getProduct" => Owned(Mem, lastOp[2]) # ret

\* C7: after NewCarBuilder and then constructSportsCar, the first getProduct
\* returns the non-nil product that constructSportsCar's reset created and its
\* setters configured, not the constructor's product, and the next getProduct
\* returns another product, on which no setter has acted.
C7_EndToEndCar ==
    /\ scenario.stage = "built" =>
          /\ car = scenario.builtCar
          /\ trace = SportsCarCalls("cb")
    /\ scenario.stage = "got1" =>
          /\ ret # Nil
          /\ ret = scenario.firstCar
          /\ ret = scenario.builtCar
          /\ ret # scenario.ctorCar
          /\ heap[ret] = [type |-> "Car", configured |-> TRUE]
    /\ scenario.stage = "got2" =>
          /\ ret # Nil
          /\ ret # scenario.firstCar
          /\ heap[ret] = [type |-> "Car", configured |-> FALSE]

C7_Witness ==
    /\ scenario.stage = "got2"
    /\ lastOp = <<"getProduct", "cb">>

\* C8: reset of either builder replaces the owned product by a newly allocated
\* one of the builder's type on which no setter has acted: it is not the
\* product owned before and none of the products getProduct has returned.
C8_ResetStep ==
    \A b \in Builders :
        lastOp' = <<"reset", b>> =>
            LET old == Owned(Mem, b)
                new == IF b = "cb" THEN car' ELSE manual'
            IN  /\ new # Nil
                /\ new # old
                /\ new = allocated + 1
                /\ new \notin given["cb"] \cup given["mb"] \cup {ret}
                /\ heap'[new] = [type |-> IF b = "cb" THEN "Car" ELSE "Manual",
                                 configured |-> FALSE]
                /\ old \notin {car', manual'}

C8_ResetFresh == [][C8_ResetStep]_vars

C8_Witness ==
    /\ lastOp[1] = "reset"
    /\ given[lastOp[2]] # {}
    /\ ret # Nil

\* C9: a setter of either builder, whatever its arguments, leaves both
\* builders owning the products they owned, allocates nothing, and leaves the
\* other builder's product as it was.
C9_SetterStep ==
    lastOp'[1] \in Setters =>
        /\ car' = car
        /\ manual' = manual
        /\ allocated' = allocated
        /\ lastOp'[2] = "cb" => View(manual', heap') = ManualView
        /\ lastOp'[2] = "mb" => View(car', heap') = CarView

C9_SettersKeepProduct == [][C9_SetterStep]_vars

C9_Witness ==
    /\ lastOp[1] \in Setters
    /\ constructed = Builders
    /\ trace[1][3] # <<>>
    /\ heap[Owned(Mem, lastOp[2])].configured

\* C10: every constructed builder owns one non-nil product of its type, no
\* product is owned by both builders, and a director call on one builder
\* leaves the other builder's product as it was.
C10_OwnsOne ==
    /\ "cb" \in constructed => car \in DOMAIN heap /\ heap[car].type = "Car"
    /\ "mb" \in constructed => manual \in DOMAIN heap /\ heap[manual].type = "Manual"
    /\ constructed = Builders => car # manual

C10_DirectorStep ==
    lastOp'[1] \in {"constructSportsCar", "constructSUV"} =>
        /\ lastOp'[2] = "cb" => View(manual', heap') = ManualView
        /\ lastOp'[2] = "mb" => View(car', heap') = CarView

C10_BuildersSeparate == []C10_OwnsOne /\ [][C10_DirectorStep]_vars

C10_Witness ==
    /\ lastOp = <<"constructSportsCar", "cb">>
    /\ constructed = Builders
    /\ heap[manual].configured
    /\ allocated >= 3

====
